---- MODULE Spec2Model ----
(***************************************************************************)
(* Garlic-box climate controller: the thermostat / fan state machine of    *)
(* src/src/heater.py, the runtime accumulator of src/src/db_access.py and  *)
(* the supervisor loop with its shutdown path of src/main.py.              *)
(*                                                                         *)
(* Units: temperatures are tenths of a degree Celsius (get_temps rounds to *)
(* one decimal), times are whole seconds of the wall clock.                *)
(***************************************************************************)
EXTENDS Integers, Sequences, FiniteSets, TLC

(* ---------------- program constants ---------------- *)
MIN_TEMP == 675
MAX_TEMP == 725
HEATER_PIN == 13
FANS_PIN == 11
FanRunLimit == 59
CooldownSeconds == 30
FractionSeconds == 15
MeasureEvery == 4
ExpectedProbes == 2
DaySeconds == 24 * 3600

(* ---------------- bounds of the model ---------------- *)
\* the main loop stops taking new ticks after this wall-clock second
MaxTime == 105
\* the process is started at a second 0..MaxStartSecond after a quarter mark
MaxStartSecond == 1
\* the persisted total found at start is 0..MaxInitialTotal
MaxInitialTotal == 2
\* process starts after the first one
MaxRestarts == 1
\* a long heating session lasts 1..MaxDays whole days and 0..MaxQuarters
\* quarters of a minute
MaxDays == 1
MaxQuarters == 2
\* a process is started again only in the last seconds before MaxTime
RestartWindow == 1

NoTs == 0 - 1
Pins == {HEATER_PIN, FANS_PIN}
\* readings around both thresholds: below, at and above each of them
TempValues == {MIN_TEMP - 1, MIN_TEMP, MIN_TEMP + 1, MAX_TEMP, MAX_TEMP + 1}
\* get_temps returns one reading per sensor that answers (0, 1 or 2 of them)
Snapshots == {<<>>} \cup {<<a>> : a \in TempValues}
                \cup {<<a, b>> : a \in TempValues, b \in TempValues}

VARIABLES
    pc,            \* position of the single control thread
    now,           \* wall clock, seconds
    gpio,          \* output level of each relay pin
    gpio_released, \* GPIO.cleanup() has run
    heater_ts,     \* heater.py global: time of the last heater change
    start_time,    \* db_access.py global: baseline of the duty cycle
    heater_time,   \* persisted global_state.heater_time
    loop_counter,  \* run_main local
    exitCode,      \* __main__ local
    temps,         \* check_heating local: the snapshot of the running tick
    \* ---- history variables (observations, never read by the program) ----
    pre_heater,    \* heater level when the running tick started
    divergence,    \* the running tick took the divergence branch
    off_ts,        \* time of the most recent HIGH->LOW of the heater pin
    on_since,      \* heater_ts as it was when the heater was last switched off
    forwarded,     \* durations handed to write_heating_time by this tick/shutdown
    measured,      \* the running tick called measure_all
    fault,         \* an exception other than KeyboardInterrupt is propagating
    sd_heater_on,  \* heater level found by shutdown()
    sd_start,      \* time at which the finally block was entered
    interrupts,    \* KeyboardInterrupts delivered so far
    intr_pc,       \* position at which the latest KeyboardInterrupt was raised
    shutdown_done, \* shutdown() has returned
    n_calls,       \* calls of write_heating_time made by this process
    prev_total,    \* heater_time as the latest call of write_heating_time found it
    ticks,         \* calls of check_heating made by this process
    failed_reads,  \* consecutive ticks whose probe read failed
    startup,       \* what sanity_check was answered: <<probes, humidity entries>>
    store_ok,      \* environment: the database accepts statements
    store_fault,   \* where a database statement of this process failed
    restarts,      \* process starts after the first one
    mono_prev,     \* chatter monitor: previous snapshot of the observed run
    mono_dir,      \* chatter monitor: direction of the observed run
    mono_changes,  \* chatter monitor: heater changes inside the observed run
    mono_len       \* chatter monitor: ticks of the observed run

progVars == <<pc, now, gpio, gpio_released, heater_ts, start_time, heater_time,
              loop_counter, exitCode, temps>>
histVars == <<pre_heater, divergence, off_ts, on_since, forwarded, measured,
              fault, sd_heater_on, sd_start, interrupts, intr_pc, shutdown_done>>
obsVars == <<n_calls, prev_total, ticks, failed_reads, startup, store_ok,
             store_fault, restarts>>
monVars == <<mono_prev, mono_dir, mono_changes, mono_len>>
vars == <<progVars, histVars, obsVars, monVars>>

(* ---------------- pure helpers ---------------- *)
RECURSIVE SeqMin(_), SeqMax(_)
SeqMin(s) == IF Len(s) = 1 THEN s[1]
             ELSE LET m == SeqMin(Tail(s)) IN IF s[1] < m THEN s[1] ELSE m
SeqMax(s) == IF Len(s) = 1 THEN s[1]
             ELSE LET m == SeqMax(Tail(s)) IN IF s[1] > m THEN s[1] ELSE m

\* datetime.timedelta.seconds: the seconds field of the normalised
\* (days, seconds) pair, i.e. the difference modulo one day
TdSeconds(d) == d % DaySeconds

_is_active(pin) == gpio[pin] = "HIGH"

\* variant: the second comparison reads the minimum again
IsDivergenceMinTwice(ts) == SeqMin(ts) < MIN_TEMP /\ SeqMin(ts) > MAX_TEMP

\* heater.py:103
IsDivergence(ts) == SeqMin(ts) < MIN_TEMP /\ SeqMax(ts) > MAX_TEMP

\* variant: the two thresholds are exchanged
HeatWantedSwapped(ts, active) ==
    LET temp == IF active THEN SeqMax(ts) ELSE SeqMin(ts)
    IN  temp <= (IF active THEN MIN_TEMP ELSE MAX_TEMP)

\* variant: strict comparison
HeatWantedStrict(ts, active) ==
    LET temp == IF active THEN SeqMax(ts) ELSE SeqMin(ts)
    IN  temp < (IF active THEN MAX_TEMP ELSE MIN_TEMP)

\* heater.py:110-111: the level handed to _toggle_heating
HeatWanted(ts, active) ==
    LET temp == IF active THEN SeqMax(ts) ELSE SeqMin(ts)
    IN  temp <= (IF active THEN MAX_TEMP ELSE MIN_TEMP)

\* variant: the fans are given one tick more
FanRunExpiredLate(fan_run_time) == fan_run_time > FanRunLimit + FractionSeconds

\* heater.py:77: the run-time test of _toggle_fans
FanRunExpired(fan_run_time) == fan_run_time > FanRunLimit

\* main.py:22-26 with current_second = sec + a positive fraction of a second
NextFractionSecond(sec) == ((sec \div FractionSeconds) + 1) * FractionSeconds
SleepTime(t) == NextFractionSecond(t % 60) - (t % 60)

\* variant: the session replaces the total instead of being added to it
write_heating_time_Overwrite(time_on, t) ==
    IF ~store_ok
    THEN [heater_time |-> heater_time, start_time |-> start_time,
          raised |-> TRUE]
    ELSE IF heater_time = 0
    THEN [heater_time |-> 1, start_time |-> t, raised |-> FALSE]
    ELSE LET new_total == TdSeconds(time_on)
             run_time_sec == t - start_time
         IN  IF run_time_sec = 0
             THEN [heater_time |-> heater_time, start_time |-> start_time,
                   raised |-> TRUE]
             ELSE [heater_time |-> new_total, start_time |-> start_time,
                   raised |-> FALSE]

\* db_access.py:148-174.  Result: the committed heater_time, the new
\* start_time and whether the call raised (ZeroDivisionError at line 173; the
\* UPDATE of line 170 is then never committed by the _commit decorator).
\* A database that refuses the statements raises out of line 155.
write_heating_time(time_on, t) ==
    IF ~store_ok
    THEN [heater_time |-> heater_time, start_time |-> start_time,
          raised |-> TRUE]
    ELSE IF heater_time = 0
    THEN [heater_time |-> 1, start_time |-> t, raised |-> FALSE]
    ELSE LET new_total == TdSeconds(time_on) + heater_time
             run_time_sec == t - start_time
         IN  IF run_time_sec = 0
             THEN [heater_time |-> heater_time, start_time |-> start_time,
                   raised |-> TRUE]
             ELSE [heater_time |-> new_total, start_time |-> start_time,
                   raised |-> FALSE]

\* variant: no early return when the relay already has the level asked for
_toggle_heating_NoGuard(turn_on, after, onraise) ==
    IF turn_on
    THEN /\ gpio' = [gpio EXCEPT ![HEATER_PIN] = "HIGH"]
         /\ heater_ts' = now
         /\ pc' = after
         /\ forwarded' = <<>>
         /\ UNCHANGED <<heater_time, start_time, off_ts, on_since, fault,
                        n_calls, prev_total, store_fault>>
    ELSE LET delta == now - heater_ts
             w == write_heating_time(delta, now)
         IN  /\ gpio' = [gpio EXCEPT ![HEATER_PIN] = "LOW"]
             /\ off_ts' = now
             /\ on_since' = heater_ts
             /\ forwarded' = <<delta>>
             /\ n_calls' = n_calls + 1
             /\ prev_total' = heater_time
             /\ store_fault' = IF store_ok THEN store_fault
                               ELSE IF pc = "finally" THEN "shutdown" ELSE "tick"
             /\ heater_time' = w.heater_time
             /\ start_time' = w.start_time
             /\ IF w.raised
                THEN /\ fault' = TRUE
                     /\ pc' = onraise
                     /\ UNCHANGED heater_ts
                ELSE /\ heater_ts' = now
                     /\ pc' = after

\* heater.py:34-55.  Sets the heater pin, heater_ts and the accumulator;
\* "after" is the position reached when the call returns, "onraise" the one
\* reached when write_heating_time raises out of it.
_toggle_heating(turn_on, after, onraise) ==
    IF turn_on = _is_active(HEATER_PIN)
    THEN /\ pc' = after
         /\ UNCHANGED <<gpio, heater_ts, heater_time, start_time, off_ts,
                        on_since, fault, n_calls, prev_total, store_fault>>
         /\ forwarded' = <<>>
    ELSE IF turn_on
    THEN /\ gpio' = [gpio EXCEPT ![HEATER_PIN] = "HIGH"]
         /\ heater_ts' = now
         /\ pc' = after
         /\ forwarded' = <<>>
         /\ UNCHANGED <<heater_time, start_time, off_ts, on_since, fault,
                        n_calls, prev_total, store_fault>>
    ELSE LET delta == now - heater_ts
             w == write_heating_time(delta, now)
         IN  /\ gpio' = [gpio EXCEPT ![HEATER_PIN] = "LOW"]
             /\ off_ts' = now
             /\ on_since' = heater_ts
             /\ forwarded' = <<delta>>
             /\ n_calls' = n_calls + 1
             /\ prev_total' = heater_time
             /\ store_fault' = IF store_ok THEN store_fault
                               ELSE IF pc = "finally" THEN "shutdown" ELSE "tick"
             /\ heater_time' = w.heater_time
             /\ start_time' = w.start_time
             /\ IF w.raised
                THEN /\ fault' = TRUE
                     /\ pc' = onraise
                     /\ UNCHANGED heater_ts
                ELSE /\ heater_ts' = now
                     /\ pc' = after
                     /\ UNCHANGED fault

\* heater.py:58-60
_activate_fans(turn_on) ==
    gpio' = [gpio EXCEPT ![FANS_PIN] = IF turn_on THEN "HIGH" ELSE "LOW"]

(* ---------------- initial state ---------------- *)
\* main.py has imported src.heater (_init: both pins LOW, heater_ts = now)
\* and src.db_access (start_time = now); the database row holds whatever an
\* earlier run left in it (0 for a fresh database).
Init ==
    /\ pc = "run_main"
    /\ now \in 0..MaxStartSecond
    /\ gpio = [p \in Pins |-> "LOW"]
    /\ gpio_released = FALSE
    /\ heater_ts = now
    /\ start_time = now
    /\ heater_time \in 0..MaxInitialTotal
    /\ loop_counter = 0
    /\ exitCode = 1
    /\ temps = <<>>
    /\ pre_heater = FALSE
    /\ divergence = FALSE
    /\ off_ts = NoTs
    /\ on_since = NoTs
    /\ forwarded = <<>>
    /\ measured = FALSE
    /\ fault = FALSE
    /\ sd_heater_on = FALSE
    /\ sd_start = NoTs
    /\ interrupts = 0
    /\ intr_pc = "none"
    /\ shutdown_done = FALSE
    /\ n_calls = 0
    /\ prev_total = NoTs
    /\ ticks = 0
    /\ failed_reads = 0
    /\ startup = <<>>
    /\ store_ok = TRUE
    /\ store_fault = "none"
    /\ restarts = 0
    /\ mono_len = 0
    /\ mono_prev = <<>>
    /\ mono_dir = "none"
    /\ mono_changes = 0

(* ---------------- startup: main.py:41-45, measure.py:13-29 ---------------- *)
\* src/DHT20.py is not part of the sources: get_temp_and_humid yields the
\* pair (temperature, humidity) of the one sensor, or fewer entries when the
\* sensor does not answer
HumidityAnswers == {<<>>, <<MIN_TEMP>>, <<MIN_TEMP, 50>>}

\* variant: the probe count is only checked against the upper limit
sanity_check_AtMost(count, humid) == count <= ExpectedProbes /\ Len(humid) = 2

\* measure.py:13-29: count sensors answer get_temps, humid is what
\* get_temp_and_humid returns
sanity_check(count, humid) == count = ExpectedProbes /\ Len(humid) = 2

RunMain(count, humid) ==
    /\ pc = "run_main"
    /\ startup' = <<count, Len(humid)>>
    /\ IF sanity_check(count, humid)
       THEN /\ pc' = "check_heating"
            /\ UNCHANGED <<exitCode, sd_start>>
       ELSE /\ exitCode' = 1          \* return 1, then the finally block
            /\ pc' = "finally"
            /\ sd_start' = now
    /\ loop_counter' = 0
    /\ UNCHANGED <<now, gpio, gpio_released, heater_ts, start_time, heater_time,
                   temps, pre_heater, divergence, off_ts, on_since, forwarded,
                   measured, fault, sd_heater_on, interrupts, intr_pc,
                   shutdown_done, n_calls, prev_total, ticks, failed_reads,
                   store_ok, store_fault, restarts, monVars>>

(* ---------------- one tick: heater.py:97-112 ---------------- *)
\* heater.py:100-111: read the probes, branch, _toggle_heating
check_heating(ts) ==
    /\ pc = "check_heating"
    /\ temps' = ts
    /\ pre_heater' = _is_active(HEATER_PIN)
    /\ measured' = FALSE
    /\ ticks' = ticks + 1
    /\ IF Len(ts) = 0
       THEN \* zip(*[]) yields nothing to unpack: ValueError
            /\ pc' = "finally"
            /\ fault' = TRUE
            /\ sd_start' = now
            /\ divergence' = FALSE
            /\ forwarded' = <<>>
            /\ failed_reads' = failed_reads + 1
            /\ UNCHANGED <<gpio, heater_ts, heater_time, start_time, off_ts,
                           on_since, n_calls, prev_total, store_fault>>
       ELSE IF IsDivergence(ts)
       THEN /\ divergence' = TRUE
            /\ failed_reads' = 0
            /\ _toggle_heating(FALSE, "div_fans", "finally")
            /\ sd_start' = IF pc' = "finally" THEN now ELSE sd_start
       ELSE /\ divergence' = FALSE
            /\ failed_reads' = 0
            /\ _toggle_heating(HeatWanted(ts, _is_active(HEATER_PIN)),
                               "toggle_fans", "finally")
            /\ sd_start' = IF pc' = "finally" THEN now ELSE sd_start
    /\ UNCHANGED <<now, gpio_released, loop_counter, exitCode, sd_heater_on,
                   interrupts, intr_pc, shutdown_done, startup, store_ok,
                   restarts>>

CheckHeating(ts) == check_heating(ts) /\ UNCHANGED monVars

\* heater.py:107-108: the divergence branch forces the fans on and returns
DivergenceFans ==
    /\ pc = "div_fans"
    /\ _activate_fans(TRUE)
    /\ pc' = "loop_count"
    /\ UNCHANGED <<now, gpio_released, heater_ts, start_time, heater_time,
                   loop_counter, exitCode, temps, histVars, obsVars, monVars>>

\* variant: the fans are never switched on by the fan rule
_toggle_fans_NeverOn ==
    LET fans_active == _is_active(FANS_PIN)
        heater_active == _is_active(HEATER_PIN)
        fan_run_time == TdSeconds(now - heater_ts)
    IN  IF ~heater_active /\ fans_active /\ FanRunExpired(fan_run_time)
        THEN _activate_fans(FALSE)
        ELSE UNCHANGED gpio

\* heater.py:63-79
_toggle_fans ==
    LET fans_active == _is_active(FANS_PIN)
        heater_active == _is_active(HEATER_PIN)
        fan_run_time == TdSeconds(now - heater_ts)
    IN  IF heater_active /\ fans_active THEN UNCHANGED gpio
        ELSE IF heater_active /\ ~fans_active THEN _activate_fans(TRUE)
        ELSE IF ~heater_active /\ fans_active /\ FanRunExpired(fan_run_time)
        THEN _activate_fans(FALSE)
        ELSE UNCHANGED gpio

ToggleFans ==
    /\ pc = "toggle_fans"
    /\ _toggle_fans
    /\ pc' = "loop_count"
    /\ UNCHANGED <<now, gpio_released, heater_ts, start_time, heater_time,
                   loop_counter, exitCode, temps, histVars, obsVars, monVars>>

\* variant: the counter is not set back after a measurement
LoopCount_NoReset ==
    /\ pc = "loop_count"
    /\ IF loop_counter + 1 = MeasureEvery
       THEN loop_counter' = loop_counter + 1 /\ measured' = TRUE
       ELSE loop_counter' = loop_counter + 1 /\ measured' = FALSE
    /\ IF measured' /\ ~store_ok
       THEN /\ pc' = "finally"
            /\ fault' = TRUE
            /\ sd_start' = now
            /\ store_fault' = "measure"
       ELSE /\ pc' = "wait"
            /\ UNCHANGED <<fault, sd_start, store_fault>>
    /\ temps' = <<>>
    /\ forwarded' = <<>>
    /\ UNCHANGED <<now, gpio, gpio_released, heater_ts, start_time, heater_time,
                   exitCode, pre_heater, divergence, off_ts, on_since,
                   sd_heater_on, interrupts, intr_pc, shutdown_done, n_calls,
                   prev_total, ticks, failed_reads, startup, store_ok, restarts,
                   monVars>>

\* main.py:49-52: count the tick, measure_all on every fourth one
\* (measure.py:7-10: measure_all writes its rows; a database that refuses
\* the statements raises out of it)
LoopCount ==
    /\ pc = "loop_count"
    /\ IF loop_counter + 1 = MeasureEvery
       THEN loop_counter' = 0 /\ measured' = TRUE
       ELSE loop_counter' = loop_counter + 1 /\ measured' = FALSE
    /\ IF measured' /\ ~store_ok
       THEN /\ pc' = "finally"
            /\ fault' = TRUE
            /\ sd_start' = now
            /\ store_fault' = "measure"
       ELSE /\ pc' = "wait"
            /\ UNCHANGED <<fault, sd_start, store_fault>>
    /\ temps' = <<>>
    /\ forwarded' = <<>>
    /\ UNCHANGED <<now, gpio, gpio_released, heater_ts, start_time, heater_time,
                   exitCode, pre_heater, divergence, off_ts, on_since,
                   sd_heater_on, interrupts, intr_pc, shutdown_done, n_calls,
                   prev_total, ticks, failed_reads, startup, store_ok, restarts,
                   monVars>>

\* main.py:14-30: sleep to the next quarter of the minute
WaitNextMinuteFraction ==
    /\ pc = "wait"
    /\ now + SleepTime(now) <= MaxTime
    /\ now' = now + SleepTime(now)
    /\ pc' = "check_heating"
    /\ UNCHANGED <<gpio, gpio_released, heater_ts, start_time, heater_time,
                   loop_counter, exitCode, temps, histVars, obsVars, monVars>>

(* ---------------- termination: main.py:60-71, heater.py:119-126 ---------- *)
MainPcs == {"run_main", "check_heating", "div_fans", "toggle_fans",
            "loop_count", "wait"}
FinallyPcs == {"finally", "sd_fans", "sd_sleep", "cleanup", "sys_exit"}
EndPcs == {"exited", "killed", "aborted"}

\* main.py:64-65: SIGINT while the try body runs (d seconds into the sleep
\* when the thread is waiting); the handler prints and the finally block starts
KeyboardInterrupt(d) ==
    /\ pc \in MainPcs
    /\ IF pc = "wait" THEN d < SleepTime(now) ELSE d = 0
    /\ now' = now + d
    /\ pc' = "finally"
    /\ sd_start' = now + d
    /\ interrupts' = interrupts + 1
    /\ intr_pc' = pc
    /\ temps' = <<>>
    /\ UNCHANGED <<gpio, gpio_released, heater_ts, start_time, heater_time,
                   loop_counter, exitCode, pre_heater, divergence, off_ts,
                   on_since, forwarded, measured, fault, sd_heater_on,
                   shutdown_done, obsVars, monVars>>

\* heater.py:119-123: shutdown() up to and including _toggle_heating(False)
ShutdownStep ==
    /\ pc = "finally"
    /\ sd_heater_on' = _is_active(HEATER_PIN)
    /\ IF ~_is_active(HEATER_PIN)
       THEN /\ pc' = "cleanup"
            /\ shutdown_done' = TRUE
            /\ UNCHANGED <<gpio, heater_ts, heater_time, start_time, off_ts,
                           on_since, forwarded, fault, n_calls, prev_total,
                           store_fault>>
       ELSE /\ _toggle_heating(FALSE, "sd_fans", "aborted")
            /\ UNCHANGED shutdown_done
    /\ UNCHANGED <<now, gpio_released, loop_counter, exitCode, temps,
                   pre_heater, divergence, measured, sd_start, interrupts,
                   intr_pc, ticks, failed_reads, startup, store_ok, restarts,
                   monVars>>

\* heater.py:124
ShutdownFans ==
    /\ pc = "sd_fans"
    /\ _activate_fans(TRUE)
    /\ pc' = "sd_sleep"
    /\ UNCHANGED <<now, gpio_released, heater_ts, start_time, heater_time,
                   loop_counter, exitCode, temps, histVars, obsVars, monVars>>

\* heater.py:125-126: sleep(30) runs to its end
Cooldown ==
    /\ pc = "sd_sleep"
    /\ now' = now + CooldownSeconds
    /\ pc' = "cleanup"
    /\ shutdown_done' = TRUE
    /\ UNCHANGED <<gpio, gpio_released, heater_ts, start_time, heater_time,
                   loop_counter, exitCode, temps, pre_heater, divergence,
                   off_ts, on_since, forwarded, measured, fault, sd_heater_on,
                   sd_start, interrupts, intr_pc, obsVars, monVars>>

\* main.py:68-69: GPIO.cleanup() releases both relay outputs
Cleanup ==
    /\ pc = "cleanup"
    /\ gpio_released' = TRUE
    /\ pc' = "sys_exit"
    /\ UNCHANGED <<now, gpio, heater_ts, start_time, heater_time,
                   loop_counter, exitCode, temps, histVars, obsVars, monVars>>

\* main.py:71 (or the pending exception is re-raised after the finally block)
SysExit ==
    /\ pc = "sys_exit"
    /\ pc' = "exited"
    /\ UNCHANGED <<now, gpio, gpio_released, heater_ts, start_time, heater_time,
                   loop_counter, exitCode, temps, histVars, obsVars, monVars>>

\* main.py:66-69: SIGINT while the finally block runs (d seconds into the
\* cooldown sleep when the thread is in it): KeyboardInterrupt is raised
\* inside the block, the rest of the block is skipped and the interpreter
\* ends on the uncaught exception
InterruptFinally(d) ==
    /\ pc \in FinallyPcs
    /\ IF pc = "sd_sleep" THEN d < CooldownSeconds ELSE d = 0
    /\ now' = now + d
    /\ pc' = "killed"
    /\ interrupts' = interrupts + 1
    /\ intr_pc' = pc
    /\ UNCHANGED <<gpio, gpio_released, heater_ts, start_time, heater_time,
                   loop_counter, exitCode, temps, pre_heater, divergence,
                   off_ts, on_since, forwarded, measured, fault, sd_heater_on,
                   sd_start, shutdown_done, obsVars, monVars>>

Next ==
    \/ \E c \in 0..ExpectedProbes, h \in HumidityAnswers : RunMain(c, h)
    \/ \E ts \in Snapshots : CheckHeating(ts)
    \/ DivergenceFans
    \/ ToggleFans
    \/ LoopCount
    \/ WaitNextMinuteFraction
    \/ \E d \in 0..(FractionSeconds - 1) : KeyboardInterrupt(d)
    \/ ShutdownStep
    \/ ShutdownFans
    \/ Cooldown
    \/ Cleanup
    \/ SysExit
    \/ \E d \in 0..(CooldownSeconds - 1) : InterruptFinally(d)

Spec == Init /\ [][Next]_vars

(* ---------------- the process is started again ---------------- *)
\* A process that has ended is started again d seconds later: the imports
\* run anew (heater.py:15 and 82-94, db_access.py:14), every module global
\* is fresh, the database row keeps its value.
Restart(d) ==
    /\ pc \in EndPcs
    /\ restarts < MaxRestarts
    /\ now + d <= MaxTime
    /\ now + d >= MaxTime - RestartWindow
    /\ now' = now + d
    /\ pc' = "run_main"
    /\ gpio' = [p \in Pins |-> "LOW"]
    /\ gpio_released' = FALSE
    /\ heater_ts' = now'
    /\ start_time' = now'
    /\ loop_counter' = 0
    /\ exitCode' = 1
    /\ temps' = <<>>
    /\ pre_heater' = FALSE
    /\ divergence' = FALSE
    /\ off_ts' = NoTs
    /\ on_since' = NoTs
    /\ forwarded' = <<>>
    /\ measured' = FALSE
    /\ fault' = FALSE
    /\ sd_heater_on' = FALSE
    /\ sd_start' = NoTs
    /\ interrupts' = 0
    /\ intr_pc' = "none"
    /\ shutdown_done' = FALSE
    /\ n_calls' = 0
    /\ prev_total' = NoTs
    /\ ticks' = 0
    /\ failed_reads' = 0
    /\ startup' = <<>>
    /\ store_fault' = "none"
    /\ restarts' = restarts + 1
    /\ UNCHANGED <<heater_time, store_ok, monVars>>

NextRestart ==
    \/ \E c \in 0..ExpectedProbes, h \in HumidityAnswers : RunMain(c, h)
    \/ \E ts \in Snapshots : CheckHeating(ts)
    \/ DivergenceFans
    \/ ToggleFans
    \/ LoopCount
    \/ WaitNextMinuteFraction
    \/ \E d \in 0..(FractionSeconds - 1) : KeyboardInterrupt(d)
    \/ ShutdownStep
    \/ ShutdownFans
    \/ Cooldown
    \/ Cleanup
    \/ SysExit
    \/ \E d \in 0..(CooldownSeconds - 1) : InterruptFinally(d)
    \/ \E d \in 0..MaxStartSecond : Restart(d)

SpecRestart == Init /\ [][NextRestart]_vars

(* ---------------- a heating session of a day or more ---------------- *)
\* The process was started at second 0, its first tick switched the heater
\* ON (heater.py:110, heater_ts = 0) and every tick since has read inside the
\* band; it now stands before the tick at days whole days and quarters
\* quarters of a minute after the start.
InitLong ==
    /\ \E days \in 1..MaxDays, quarters \in 0..MaxQuarters :
          now = days * DaySeconds + quarters * FractionSeconds
    /\ pc = "check_heating"
    /\ gpio = [p \in Pins |-> "HIGH"]
    /\ gpio_released = FALSE
    /\ heater_ts = 0
    /\ start_time = 0
    /\ heater_time \in 0..MaxInitialTotal
    /\ ticks = now \div FractionSeconds
    /\ loop_counter = ticks % MeasureEvery
    /\ measured = (loop_counter = 0)
    /\ exitCode = 1
    /\ temps = <<>>
    /\ pre_heater = TRUE
    /\ divergence = FALSE
    /\ off_ts = NoTs
    /\ on_since = NoTs
    /\ forwarded = <<>>
    /\ fault = FALSE
    /\ sd_heater_on = FALSE
    /\ sd_start = NoTs
    /\ interrupts = 0
    /\ intr_pc = "none"
    /\ shutdown_done = FALSE
    /\ n_calls = 0
    /\ prev_total = NoTs
    /\ failed_reads = 0
    /\ startup = <<ExpectedProbes, 2>>
    /\ store_ok = TRUE
    /\ store_fault = "none"
    /\ restarts = 0
    /\ mono_len = 0
    /\ mono_prev = <<>>
    /\ mono_dir = "none"
    /\ mono_changes = 0

\* the tick at hand and the termination that may follow it
NextLong ==
    \/ \E ts \in Snapshots : CheckHeating(ts)
    \/ DivergenceFans
    \/ ToggleFans
    \/ LoopCount
    \/ \E d \in 0..(FractionSeconds - 1) : KeyboardInterrupt(d)
    \/ ShutdownStep
    \/ ShutdownFans
    \/ Cooldown
    \/ Cleanup
    \/ SysExit
    \/ \E d \in 0..(CooldownSeconds - 1) : InterruptFinally(d)

SpecLong == InitLong /\ [][NextLong]_vars

(* ---------------- the database refuses statements ---------------- *)
\* db_access.py:20-30, 177-188: the sqlite calls are made without a handler;
\* from some moment on every statement raises (locked or unwritable file)
StoreOutage ==
    /\ pc \notin EndPcs
    /\ store_ok
    /\ store_ok' = FALSE
    /\ UNCHANGED <<progVars, histVars, n_calls, prev_total, ticks,
                   failed_reads, startup, store_fault, restarts, monVars>>

\* the database accepts statements again
StoreRecovery ==
    /\ pc \notin EndPcs
    /\ ~store_ok
    /\ store_ok' = TRUE
    /\ UNCHANGED <<progVars, histVars, n_calls, prev_total, ticks,
                   failed_reads, startup, store_fault, restarts, monVars>>

NextStore ==
    \/ \E c \in 0..ExpectedProbes, h \in HumidityAnswers : RunMain(c, h)
    \/ \E ts \in Snapshots : CheckHeating(ts)
    \/ DivergenceFans
    \/ ToggleFans
    \/ LoopCount
    \/ WaitNextMinuteFraction
    \/ \E d \in 0..(FractionSeconds - 1) : KeyboardInterrupt(d)
    \/ ShutdownStep
    \/ ShutdownFans
    \/ Cooldown
    \/ Cleanup
    \/ SysExit
    \/ \E d \in 0..(CooldownSeconds - 1) : InterruptFinally(d)
    \/ StoreOutage
    \/ StoreRecovery

SpecStore == Init /\ [][NextStore]_vars

(* ---------------- observed ticks: the chatter monitor ---------------- *)
\* The monitor follows one run of consecutive ticks.  A run may be started
\* afresh at any tick; it goes on with the next tick only while every probe
\* moves in the run's one direction and, once the heater has changed inside
\* the run, the reading that decides for the heater's present state does not
\* move across the threshold of that state.
NonDecreasing(a, b) == \A i \in 1..Len(a) : a[i] <= b[i]
NonIncreasing(a, b) == \A i \in 1..Len(a) : a[i] >= b[i]
Crossed(a, b, th) ==
    a # b /\ (IF a < b THEN a <= th /\ th <= b ELSE b <= th /\ th <= a)
CrossesActive(a, b, active) ==
    IF active THEN Crossed(SeqMax(a), SeqMax(b), MAX_TEMP)
    ELSE Crossed(SeqMin(a), SeqMin(b), MIN_TEMP)
RunGoesOn(ts) ==
    /\ mono_prev # <<>>
    /\ Len(ts) = Len(mono_prev)
    /\ \/ mono_dir \in {"none", "up"} /\ NonDecreasing(mono_prev, ts)
       \/ mono_dir \in {"none", "down"} /\ NonIncreasing(mono_prev, ts)
    /\ mono_changes >= 1 => ~CrossesActive(mono_prev, ts, _is_active(HEATER_PIN))
RunDirection(ts) ==
    IF mono_dir # "none" THEN mono_dir
    ELSE IF ts = mono_prev THEN "none"
    ELSE IF NonDecreasing(mono_prev, ts) THEN "up" ELSE "down"
Observe(ts) ==
    LET changed == IF gpio'[HEATER_PIN] # gpio[HEATER_PIN] THEN 1 ELSE 0
    IN  /\ mono_prev' = ts
        /\ \/ /\ Len(ts) > 0
              /\ RunGoesOn(ts)
              /\ mono_dir' = RunDirection(ts)
              /\ mono_len' = mono_len + 1
              /\ mono_changes' = IF mono_changes + changed > 2 THEN 2
                                 ELSE mono_changes + changed
           \/ /\ mono_dir' = "none"
              /\ mono_len' = 1
              /\ mono_changes' = changed

CheckHeatingObserved(ts) == check_heating(ts) /\ Observe(ts)

\* the program left to itself (no signal arrives), every tick observed
NextObserved ==
    \/ \E c \in 0..ExpectedProbes, h \in HumidityAnswers : RunMain(c, h)
    \/ \E ts \in Snapshots : CheckHeatingObserved(ts)
    \/ DivergenceFans
    \/ ToggleFans
    \/ LoopCount
    \/ WaitNextMinuteFraction
    \/ ShutdownStep
    \/ ShutdownFans
    \/ Cooldown
    \/ Cleanup
    \/ SysExit

SpecObserved == Init /\ [][NextObserved]_vars

(* ======================= properties ======================= *)
\* check_heating has returned normally: relay levels are those "after the tick"
TickDone == pc = "loop_count"
HeaterOn == _is_active(HEATER_PIN)
FansOn == _is_active(FANS_PIN)
Lo == SeqMin(temps)
Hi == SeqMax(temps)
\* the snapshot of the tick reads below MIN_TEMP and above MAX_TEMP at once
DivergenceSnapshot == Lo < MIN_TEMP /\ Hi > MAX_TEMP
GraceSeconds == FanRunLimit + 1

\* C1 - Hysteresis band holds: after a tick on a non-divergence snapshot, a
\* heater that was ON with max(temperatures) < MAX_TEMP is still ON, and a
\* heater that was OFF with min(temperatures) > MIN_TEMP is still OFF.
C1_HysteresisBand ==
    (TickDone /\ ~DivergenceSnapshot) =>
        /\ (pre_heater /\ Hi < MAX_TEMP) => HeaterOn
        /\ (~pre_heater /\ Lo > MIN_TEMP) => ~HeaterOn

\* a tick that started ON with every probe below MAX_TEMP (one of them even
\* at MIN_TEMP) has completed
C1_Witness ==
    TickDone /\ pre_heater /\ Hi < MAX_TEMP /\ Lo <= MIN_TEMP /\ HeaterOn

\* C2 - Divergence override precedence: after a tick whose snapshot has
\* min < MIN_TEMP and max > MAX_TEMP the heater is OFF and the fans are ON,
\* whatever the heater, the fans and heater_ts were before.
C2_DivergenceOverride ==
    (TickDone /\ DivergenceSnapshot) => (~HeaterOn /\ FansOn)

\* a divergence tick that found the heater ON has completed
C2_Witness ==
    TickDone /\ DivergenceSnapshot /\ pre_heater /\ ~HeaterOn /\ FansOn

\* C3 as stated - the heater goes OFF exactly when hi >= MAX_TEMP and ON
\* exactly when lo <= MIN_TEMP, boundary readings included.
C3_RuleAsStated ==
    (TickDone /\ ~DivergenceSnapshot) =>
        (HeaterOn <=> IF pre_heater THEN ~(Hi >= MAX_TEMP) ELSE Lo <= MIN_TEMP)

\* C3 - Hysteresis decision rule as the code has it: on a non-divergence
\* snapshot the heater goes from ON to OFF exactly when hi > MAX_TEMP (it
\* stays ON at hi = MAX_TEMP) and from OFF to ON exactly when lo <= MIN_TEMP.
C3_HysteresisRule ==
    (TickDone /\ ~DivergenceSnapshot) =>
        (HeaterOn <=> IF pre_heater THEN ~(Hi > MAX_TEMP) ELSE Lo <= MIN_TEMP)

\* a tick that started ON with the hottest probe exactly at MAX_TEMP has
\* completed and left the heater ON
C3_Witness ==
    TickDone /\ ~DivergenceSnapshot /\ pre_heater /\ Hi = MAX_TEMP /\ HeaterOn

\* C4 - No chatter: inside any run of ticks over which the probe
\* temperatures move in one direction only (or stand still) and do not move
\* across the threshold of the heater's present state once the heater has
\* changed, the heater relay changes at most once.
C4_NoChatter == mono_changes <= 1

\* C5 as stated - Fan invariant: after every tick, divergence ticks included,
\* the fans are ON only if the heater is ON or the time since the most recent
\* ON->OFF heater transition is within the 60-second grace period.
C5_FanInvariantAsStated ==
    TickDone =>
        (FansOn => (HeaterOn \/ (off_ts # NoTs /\ now - off_ts <= GraceSeconds)))

\* C5 - Fan invariant as the code has it: after every tick whose snapshot is
\* not a divergence snapshot, the fans are ON only if the heater is ON or
\* fewer than 60 whole seconds (timedelta.seconds) lie between heater_ts and
\* now, heater_ts being the time of the last heater change or, when there has
\* been none, of process start.
C5_FanInvariant ==
    (TickDone /\ ~DivergenceSnapshot) =>
        (FansOn => (HeaterOn \/ TdSeconds(now - heater_ts) < GraceSeconds))

\* a non-divergence tick has completed with the heater OFF and the fans
\* still running inside the grace period after a switch-off
C5_Witness ==
    /\ TickDone /\ ~DivergenceSnapshot /\ ~HeaterOn /\ FansOn
    /\ off_ts # NoTs /\ now - off_ts > 0

\* C6 as stated - Fan grace period: with the heater switched OFF at T and not
\* switched ON again, the fans are ON at every tick before T + 60 s and OFF
\* after the tick at T + 60 s; with the heater switched ON again before
\* T + 60 s the fans are ON while the heater is ON.
C6_FanGraceAsStated ==
    (TickDone /\ off_ts # NoTs) =>
        /\ (~HeaterOn /\ now - off_ts < GraceSeconds) => FansOn
        /\ (~HeaterOn /\ now - off_ts = GraceSeconds) => ~FansOn
        /\ (HeaterOn /\ heater_ts - off_ts < GraceSeconds) => FansOn

\* C6 - Fan grace period as the code has it: as stated, except that the tick
\* at T + 60 s switches the fans OFF only when its snapshot is not a
\* divergence snapshot (a divergence tick forces the fans ON).
C6_FanGrace ==
    (TickDone /\ off_ts # NoTs) =>
        /\ (~HeaterOn /\ now - off_ts < GraceSeconds) => FansOn
        /\ (~HeaterOn /\ now - off_ts = GraceSeconds /\ ~DivergenceSnapshot)
               => ~FansOn
        /\ (HeaterOn /\ heater_ts - off_ts < GraceSeconds) => FansOn

\* the tick at T + 60 s has completed on a non-divergence snapshot and has
\* switched the fans off
C6_Witness ==
    /\ TickDone /\ off_ts # NoTs /\ ~HeaterOn /\ ~DivergenceSnapshot
    /\ now - off_ts = GraceSeconds /\ ~FansOn

\* C7 - No hot element with fans off at termination: when the relay outputs
\* are released and the heater was switched OFF less than 30 s earlier, or was
\* still ON when shutdown began, the fans are ON (they can only have been
\* switched off 60 s after the switch-off) and the release comes no earlier
\* than 30 s after the switch-off.
C7_NoHotElementAtRelease ==
    (gpio_released /\ off_ts # NoTs
         /\ (now - off_ts < CooldownSeconds \/ sd_heater_on)) =>
        (FansOn /\ now - off_ts >= CooldownSeconds)

\* C8 - Shutdown with heater ON: a process that ended after shutdown() found
\* the heater ON has the heater OFF, has forwarded exactly one duration, namely
\* now - heater_ts, has the fans ON, and has released the relay outputs only
\* after the full 30-second cooldown.
C8_ShutdownHeaterOn ==
    (pc \in EndPcs /\ sd_heater_on) =>
        /\ ~HeaterOn
        /\ forwarded = <<sd_start - on_since>>
        /\ FansOn
        /\ gpio_released => now - off_ts >= CooldownSeconds

\* C9 - Cooldown is not interruptible: a process whose second interrupt
\* arrived during the cooldown sleep still ends only after the full cooldown
\* and with the relay outputs released by GPIO.cleanup().
C9_CooldownNotInterruptible ==
    (pc \in EndPcs /\ intr_pc = "sd_sleep") =>
        (now - off_ts >= CooldownSeconds /\ gpio_released)

\* C10 - Guaranteed shutdown: every process that has ended (after an
\* interrupt, a fatal fault or a failed sanity check) has run shutdown() to
\* its end, released the relay outputs only after that, and has the heater
\* relay OFF.
C10_GuaranteedShutdown ==
    /\ pc \in EndPcs => (shutdown_done /\ ~HeaterOn)
    /\ gpio_released => shutdown_done

\* C11 - Startup exclusion after restart: once a process (started on a
\* database that holds whatever total an earlier run left) has made its first
\* ON->OFF transition, the persisted total is at least 1 and is not above the
\* total that transition found (1 when it found the fresh value 0): the
\* duration of the first session is not added.
C11_StartupExclusion ==
    n_calls = 1 =>
        /\ heater_time >= 1
        /\ heater_time <= (IF prev_total = 0 THEN 1 ELSE prev_total)

\* C12 - Accumulator monotonicity: no step of the program, be it a tick, a
\* forced switch-off, a shutdown or a new start of the process, lowers the
\* persisted total.
C12_AccumulatorMonotone == [][heater_time' >= heater_time]_vars
\* a process started again has added a session to a total left by an earlier one
C12_Witness ==
    restarts >= 1 /\ n_calls >= 1 /\ prev_total > 1 /\ heater_time > prev_total

\* C13 - Transient sensor faults: while one or two consecutive probe reads
\* have failed and no signal has arrived, the process is still in its main
\* loop with no exception under way; only a third consecutive failed read
\* may end the loop.
C13_TransientSensorFaults ==
    (failed_reads >= 1 /\ failed_reads < 3 /\ interrupts = 0) =>
        (pc \in MainPcs /\ ~fault)

\* C14 - Store errors are recoverable: after a database statement of a tick
\* (the update of the total on ON->OFF, or a row of measure_all) has failed
\* and no signal has arrived, the process is still in its main loop with no
\* exception under way.
C14_StoreErrorsRecoverable ==
    (store_fault \in {"tick", "measure"} /\ interrupts = 0) =>
        (pc \in MainPcs /\ ~fault)

\* sanity_check was answered by fewer than two probes, or by a humidity
\* sensor that gave less than its pair of values
StartupFailed ==
    startup # <<>> /\ (startup[1] < ExpectedProbes \/ startup[2] < 2)
\* main.py:60-71: the status the process ends with: sys.exit(exitCode) when
\* the finally block ran to its end with no exception under way, the
\* interpreter's non-zero status for an uncaught exception otherwise
ExitStatus == IF pc = "exited" /\ ~fault THEN exitCode ELSE 1

\* C15 - Startup gate: a process whose sanity check was answered by fewer
\* than 2 probes or by no humidity sensor has run no tick, is at no point of
\* the control loop, has its heater relay OFF and, once ended, has a non-zero
\* exit status.
C15_StartupGate ==
    StartupFailed =>
        /\ ticks = 0
        /\ pc \notin {"check_heating", "div_fans", "toggle_fans", "loop_count",
                      "wait"}
        /\ ~HeaterOn
        /\ pc \in EndPcs => ExitStatus # 0
\* the process has exited through sys.exit after a sanity check with one probe
C15_Witness ==
    StartupFailed /\ startup[1] = 1 /\ pc = "exited" /\ ExitStatus = 1

\* C16 - Heater implies fans: whenever a tick's check_heating has returned
\* (up to the start of the next tick), a heater relay that is ON has the fan
\* relay ON.
C16_HeaterImpliesFans ==
    pc \in {"loop_count", "wait", "check_heating"} => (HeaterOn => FansOn)
\* a tick has switched the heater ON and the fans with it
C16_Witness == TickDone /\ HeaterOn /\ ~pre_heater /\ FansOn

\* C18 - No-op ticks change nothing: a step that leaves the heater relay at
\* its level leaves heater_ts and the persisted total alone and makes no call
\* of write_heating_time; a step that takes the relay from ON to OFF makes
\* exactly one call, a step that takes it from OFF to ON makes none.
C18_NoOpFrame ==
    [][/\ gpio'[HEATER_PIN] = gpio[HEATER_PIN] =>
            /\ heater_ts' = heater_ts
            /\ heater_time' = heater_time
            /\ n_calls' = n_calls
       /\ (gpio[HEATER_PIN] = "HIGH" /\ gpio'[HEATER_PIN] = "LOW") =>
            n_calls' = n_calls + 1
       /\ (gpio[HEATER_PIN] = "LOW" /\ gpio'[HEATER_PIN] = "HIGH") =>
            n_calls' = n_calls]_vars
\* a tick has found the heater ON, left it ON and left the older heater_ts
C18_Witness ==
    TickDone /\ pre_heater /\ HeaterOn /\ heater_ts < now /\ forwarded = <<>>

\* C20 - Measurement cadence: when a tick reaches its wait, measure_all has
\* run in it exactly if the number of check_heating calls so far is a
\* multiple of 4; measure_all has never run in a tick of another index, and
\* never before the tick's check_heating has returned.
C20_MeasurementCadence ==
    /\ pc = "wait" => (measured <=> ticks % MeasureEvery = 0)
    /\ measured => (ticks > 0 /\ ticks % MeasureEvery = 0)
    /\ pc \in {"div_fans", "toggle_fans", "loop_count"} => ~measured
\* the eighth tick has reached its wait after the second measurement
C20_Witness == pc = "wait" /\ measured /\ ticks = 2 * MeasureEvery

\* C19 - Stability under a constant snapshot: in a process whose every tick
\* so far has read the same snapshot, the heater relay has changed at most
\* once.
C19_ConstantSnapshotStable ==
    (ticks >= 1 /\ mono_len = ticks /\ mono_dir = "none") => mono_changes <= 1

\* C17 - Accumulated duration: after a call of write_heating_time that found
\* a total other than the fresh value 0, the persisted total is the total
\* found plus the whole seconds from the switch-on to the switch-off of the
\* session, whatever the length of the session.
C17_AccumulatedDuration ==
    (n_calls >= 1 /\ prev_total # 0) =>
        heater_time = prev_total + (off_ts - on_since)

====
